---- MODULE Spec2Model ----
(***************************************************************************)
(* Model of the Nextcloud Tables ETL helpers:                              *)
(*   - upload_to_table / clear_table  (nc_tables_api_wrapper/upload_table) *)
(*   - fetch_table_data and its helpers (fetch_data.py)                    *)
(* The remote Tables API is modelled as a server holding an ordered list   *)
(* of rows; every HTTP request either succeeds or fails with an HTTP error *)
(* (raise_for_status), and a failed request has no effect on the server.   *)
(* One action is one network request together with the local code that    *)
(* runs until the next request is issued, or one turn of a loop that      *)
(* issues none.                                                            *)
(***************************************************************************)
EXTENDS Integers, Sequences, FiniteSets, TLC

(***************************************************************************)
(* Bounds of the model.                                                    *)
(***************************************************************************)
\* largest number of rows of a small source table read by fetch_table_data
MaxFetchRows == 3
\* largest page size _fetch_all_rows is called with directly
MaxLimit == 2
\* largest number of column-id/value pairs of a decoded row
MaxPairs == 2
\* largest number of rows of a small remote table
MaxRows == 2
\* largest number of rows of an uploaded DataFrame
MaxDfRows == 2
\* largest number of options of a select column, and their largest id
MaxOptions == 2
\* largest number of rows of a varied hours table
MaxHours == 2
\* largest number of rows (children) of a varied names table
MaxNames == 3

(***************************************************************************)
(* Program constants.                                                      *)
(***************************************************************************)
\* clear_table(table_id, batch_size=100)
batch_size == 100
\* _fetch_all_rows(table_id, limit=100)
default_limit == 100

(***************************************************************************)
(* Python values: the pair <<type, content>>, so that two values are       *)
(* told apart by their type before their contents are looked at.           *)
(***************************************************************************)
PyNone == <<"none", 0>>
PyInt(n) == <<"int", n>>
PyStr(s) == <<"str", s>>
PyList(q) == <<"list", q>>
\* a dict is its items in insertion order, each <<key, value>>
PyDict(q) == <<"dict", q>>
\* float("nan"), the missing value of a DataFrame cell
NaN == <<"nan", 0>>
\* a numpy scalar boxing the integer n (has .item())
NpInt(n) == <<"np", n>>

Range(q) == {q[k] : k \in 1..Len(q)}

Digit == <<"0", "1", "2", "3", "4", "5", "6", "7", "8", "9">>

RECURSIVE str(_)
\* str(n) of a non-negative integer: its decimal digits
str(n) == IF n < 10 THEN Digit[n + 1] ELSE str(n \div 10) \o Digit[(n % 10) + 1]

VARIABLES
    \* ---- upload_table.py: environment and remote server
    configured,       \* BASE_URL, NEXTCLOUD_USER and NEXTCLOUD_PASSWORD are set
    remote_columns,   \* the target table's column definitions, in API order
    table,            \* the target table's rows, in server order
    table0,           \* the rows the table held when upload_to_table was called
    next_id,          \* the id the server gives to the next created row
    \* ---- upload_to_table: arguments, locals, position
    dataframe,        \* [columns: Seq(name), rows: Seq([name -> cell])]
    replace,
    upc,              \* position in upload_to_table / clear_table
    column_map,       \* title -> column id (a set of pairs being a function)
    pending,          \* clear_table: rows of the current page still to delete
    deleted,          \* clear_table: its counter
    payloads,         \* what _iter_row_payloads yields, in order
    sent,             \* number of payloads consumed by the upload loop
    created_row_ids,
    result,           \* the value returned, PyNone until then
    error,            \* the exception raised, "none" until then
    \* ---- the requests issued so far
    reads,            \* kinds of GET request issued: "columns", "rows"
    deletes,          \* row ids of the DELETE requests issued, in order
    posts,            \* POST requests issued, in order
    \* ---- fetch_data.py: remote server
    api_columns,      \* the source table's column definitions, in API order
    api_rows,         \* the source table's rows, in server order (static)
    \* ---- fetch_table_data / _fetch_all_rows: arguments, locals, position
    entry,            \* the function called: "fetch_table_data" or "_fetch_all_rows"
    limit,            \* _fetch_all_rows: its page size
    explode,
    fpc,              \* position in fetch_table_data / _fetch_all_rows
    columns_data,     \* the column definitions as fetched
    offset,
    all_rows,
    requests,         \* GET requests issued by fetch_data, in order
    fresult,          \* the value returned, PyNone until then
    ferror,           \* the exception raised, "none" until then
    \* ---- _process_row_data / _explode_row on one source row
    pairs,            \* the row's column-id/value pairs, by ascending column id
    shape,            \* how the mapping form writes each pair: key type, wrapper
    dexplode,         \* the explode argument
    dpc,              \* "input" until the row is decoded, then "decoded"
    from_list,        \* _process_row_data of the list form
    from_dict,        \* _process_row_data of the mapping form
    out_rows,         \* the processed rows fetch_table_data makes of the row
    out_frame,        \* the finalized DataFrame of those rows
    \* ---- _process_value applied to one value of a select column, twice
    select_column,    \* the column definition as fetched
    raw_value,        \* the value as stored in the row
    rpc,              \* "input", then "once", then "twice"
    once,             \* _process_value(raw_value)
    twice,            \* _process_value(once)
    \* ---- create_family_hours_table: arguments, locals, position
    df_hours0,        \* the df_hours argument: rows [wer_id, Datum, Stunden]
    df_names0,        \* the df_names argument, one row per child
    kita_year,
    tpc,              \* position in create_family_hours_table
    df_hours,         \* the hours rows left by the Kita-year filter
    df_names,         \* the names rows with Familie and alleinerziehend
    hours_dict,       \* account -> summed Stunden
    children_count,   \* Familie -> number of children counted
    family_hours,     \* the family rows, all columns, before drop and rename
    treturn,          \* the DataFrame returned, <<>> until then
    terror            \* the exception raised, "none" until then

uploadVars == <<configured, remote_columns, table, table0, next_id, dataframe,
                replace, upc, column_map, pending, deleted, payloads, sent,
                created_row_ids, result, error, reads, deletes, posts>>

fetchVars == <<api_columns, api_rows, entry, limit, explode, fpc, columns_data,
               offset, all_rows, requests, fresult, ferror>>

decodeVars == <<pairs, shape, dexplode, dpc, from_list, from_dict, out_rows, out_frame>>

resolveVars == <<select_column, raw_value, rpc, once, twice>>

familyVars == <<df_hours0, df_names0, kita_year, tpc, df_hours, df_names,
                hours_dict, children_count, family_hours, treturn, terror>>

vars == <<uploadVars, fetchVars, decodeVars, resolveVars, familyVars>>

\* the fetch side at rest: no table, nothing called
FetchIdle ==
    /\ api_columns = <<>>
    /\ api_rows = <<>>
    /\ entry = "none"
    /\ limit = 0
    /\ explode = FALSE
    /\ fpc = "idle"
    /\ columns_data = <<>>
    /\ offset = 0
    /\ all_rows = <<>>
    /\ requests = <<>>
    /\ fresult = PyNone
    /\ ferror = "none"

\* no single row is being decoded
DecodeIdle ==
    /\ pairs = <<>>
    /\ shape = <<>>
    /\ dexplode = FALSE
    /\ dpc = "idle"
    /\ from_list = <<>>
    /\ from_dict = <<>>
    /\ out_rows = <<>>
    /\ out_frame = <<>>

\* no value is being resolved
ResolveIdle ==
    /\ select_column = <<>>
    /\ raw_value = PyNone
    /\ rpc = "idle"
    /\ once = PyNone
    /\ twice = PyNone

\* create_family_hours_table is not called
FamilyIdle ==
    /\ df_hours0 = <<>>
    /\ df_names0 = <<>>
    /\ kita_year = 0
    /\ tpc = "idle"
    /\ df_hours = <<>>
    /\ df_names = <<>>
    /\ hours_dict = <<>>
    /\ children_count = <<>>
    /\ family_hours = <<>>
    /\ treturn = <<>>
    /\ terror = "none"

\* the upload side at rest
UploadIdle ==
    /\ configured = TRUE
    /\ remote_columns = <<>>
    /\ table = <<>>
    /\ table0 = <<>>
    /\ next_id = 1
    /\ dataframe = [columns |-> <<>>, rows |-> <<>>]
    /\ replace = FALSE
    /\ upc = "idle"
    /\ column_map = <<>>
    /\ pending = <<>>
    /\ deleted = 0
    /\ payloads = <<>>
    /\ sent = 0
    /\ created_row_ids = <<>>
    /\ result = PyNone
    /\ error = "none"
    /\ reads = {}
    /\ deletes = <<>>
    /\ posts = <<>>

(***************************************************************************)
(* upload_table.py                                                         *)
(***************************************************************************)

\* _require_credentials + requests.request + raise_for_status: what one
\* request can end in. Without configuration no request is sent at all.
_request == IF configured THEN {"ok", "HTTPError"} ELSE {"RuntimeError"}

\* whether a request with outcome r reached the network
Issued(r) == r # "RuntimeError"

raise_for_status_never(r) == FALSE

\* response.raise_for_status(): the request raises unless it succeeded
raise_for_status(r) == r # "ok"

\* {column["title"]: column["id"] for column in columns}: a later column of
\* the same title overwrites an earlier one
_build_column_map(columns) ==
    [ttl \in {columns[k].title : k \in 1..Len(columns)} |->
        LET last == CHOOSE k \in 1..Len(columns) :
                        /\ columns[k].title = ttl
                        /\ \A j \in (k + 1)..Len(columns) : columns[j].title # ttl
        IN columns[last].id]

\* pd.isna(value) -> None; value.item() for boxed scalars; else the value
_normalize_value(value) ==
    IF value[1] \in {"nan", "none"} THEN PyNone
    ELSE IF value[1] = "np" THEN PyInt(value[2])
    ELSE value

RECURSIVE RowPayload(_, _, _)
\* the inner loop of _iter_row_payloads over row.items(), in column order
RowPayload(names, row, cmap) ==
    IF names = <<>> THEN <<>>
    ELSE LET name == Head(names)
             rest == RowPayload(Tail(names), row, cmap)
             normalized == _normalize_value(row[name])
         IN IF name \notin DOMAIN cmap THEN rest
            ELSE IF normalized = PyNone THEN rest
            ELSE << <<str(cmap[name]), normalized>> >> \o rest

RECURSIVE PayloadsFrom(_, _, _)
PayloadsFrom(df, cmap, k) ==
    IF k > Len(df.rows) THEN <<>>
    ELSE LET payload == RowPayload(df.columns, df.rows[k], cmap)
         IN (IF payload # <<>> THEN <<[row |-> k, data |-> payload]>> ELSE <<>>)
            \o PayloadsFrom(df, cmap, k + 1)

_iter_row_payloads_reversed(df, cmap) ==
    LET p == PayloadsFrom(df, cmap, 1)
    IN [k \in 1..Len(p) |-> p[Len(p) + 1 - k]]

\* _iter_row_payloads: one payload per DataFrame row, in row order; a row
\* whose payload is empty yields nothing. "row" remembers the source row.
_iter_row_payloads(df, cmap) == PayloadsFrom(df, cmap, 1)

empty_no_columns(df) == Len(df.columns) = 0

\* DataFrame.empty: any axis has length zero
empty(df) == Len(df.rows) = 0 \/ Len(df.columns) = 0

unknown_columns_none(df, cmap) == {}

\* set(dataframe.columns) - set(column_map)
unknown_columns(df, cmap) == Range(df.columns) \ DOMAIN cmap

\* GET rows?limit=..&offset=..: the server's page of the table
RowsPage(rows, lim, off) ==
    SubSeq(rows, off + 1, IF off + lim < Len(rows) THEN off + lim ELSE Len(rows))

HasId(row) == row.hasId

clear_done_short_page(rows) == Len(rows) < batch_size

\* clear_table: "if not rows: break"
clear_done(rows) == rows = <<>>

RemoveRow(rows, id) == SelectSeq(rows, LAMBDA r : r.id # id)

Raise(e) ==
    /\ upc' = "raised"
    /\ error' = e

\* lines 173-187 once the loop is entered: the payloads are fixed, and with
\* none left the function returns created_row_ids
BeginInsert(cmap) ==
    LET p == _iter_row_payloads(dataframe, cmap)
    IN /\ payloads' = p
       /\ IF p = <<>>
          THEN upc' = "returned" /\ result' = PyList(<<>>)
          ELSE upc' = "insert" /\ result' = result

\* upload_to_table, lines 155-156
UploadCall ==
    /\ upc = "call"
    /\ IF empty(dataframe)
       THEN upc' = "returned" /\ result' = PyList(<<>>)
       ELSE upc' = "get_columns" /\ result' = result
    /\ UNCHANGED <<configured, remote_columns, table, table0, next_id, dataframe,
                   replace, column_map, pending, deleted, payloads, sent,
                   created_row_ids, error, reads, deletes, posts>>
    /\ UNCHANGED <<fetchVars, decodeVars, resolveVars, familyVars>>

\* upload_to_table, lines 158-171: GET columns, validation, then either the
\* first step of clear_table or of the insert loop
GetColumns ==
    /\ upc = "get_columns"
    /\ \E r \in _request :
        /\ reads' = IF Issued(r) THEN reads \cup {"columns"} ELSE reads
        /\ IF raise_for_status(r)
           THEN /\ Raise(r)
                /\ UNCHANGED <<column_map, payloads, result>>
           ELSE LET cmap == _build_column_map(remote_columns)
                IN /\ column_map' = cmap
                   /\ IF unknown_columns(dataframe, cmap) # {}
                      THEN Raise("ValueError") /\ UNCHANGED <<payloads, result>>
                      ELSE IF replace
                      THEN upc' = "clear_get" /\ UNCHANGED <<payloads, result, error>>
                      ELSE BeginInsert(cmap) /\ UNCHANGED error
    /\ UNCHANGED <<configured, remote_columns, table, table0, next_id, dataframe,
                   replace, pending, deleted, sent, created_row_ids, deletes, posts>>
    /\ UNCHANGED <<fetchVars, decodeVars, resolveVars, familyVars>>

\* clear_table, lines 98-105 and the entry of the for loop: GET the first page
ClearGet ==
    /\ upc = "clear_get"
    /\ \E r \in _request :
        /\ reads' = IF Issued(r) THEN reads \cup {"rows"} ELSE reads
        /\ IF raise_for_status(r)
           THEN /\ Raise(r)
                /\ UNCHANGED <<pending, payloads, result>>
           ELSE LET rows == RowsPage(table, batch_size, 0)
                IN IF clear_done(rows)
                   THEN BeginInsert(column_map) /\ UNCHANGED <<pending, error>>
                   ELSE /\ pending' = rows
                        /\ upc' = "clear_delete"
                        /\ UNCHANGED <<payloads, result, error>>
    /\ UNCHANGED <<configured, remote_columns, table, table0, next_id, dataframe,
                   replace, column_map, deleted, sent, created_row_ids, deletes, posts>>
    /\ UNCHANGED <<fetchVars, decodeVars, resolveVars, familyVars>>

\* clear_table, lines 107-112: one turn of the for loop over the page: a row
\* without id is passed over ("if row_id is None: continue"), any other row
\* gets a DELETE
ClearDelete ==
    /\ upc = "clear_delete"
    /\ IF ~HasId(Head(pending))
       THEN /\ pending' = Tail(pending)
            /\ upc' = IF Tail(pending) = <<>> THEN "clear_get" ELSE "clear_delete"
            /\ UNCHANGED <<table, deleted, deletes, error>>
       ELSE \E r \in _request :
            LET row_id == Head(pending).id
            IN /\ deletes' = IF Issued(r) THEN Append(deletes, row_id) ELSE deletes
               /\ IF raise_for_status(r)
                  THEN /\ Raise(r)
                       /\ UNCHANGED <<table, pending, deleted>>
                  ELSE /\ table' = RemoveRow(table, row_id)
                       /\ deleted' = deleted + 1
                       /\ pending' = Tail(pending)
                       /\ upc' = IF Tail(pending) = <<>> THEN "clear_get" ELSE "clear_delete"
                       /\ error' = error
    /\ UNCHANGED <<configured, remote_columns, table0, next_id, dataframe, replace,
                   column_map, payloads, sent, created_row_ids, result, reads, posts>>
    /\ UNCHANGED <<fetchVars, decodeVars, resolveVars, familyVars>>

\* upload_to_table, lines 174-187: POST the next payload; the created row's
\* JSON may or may not carry an "id"
Insert ==
    /\ upc = "insert"
    /\ \E r \in _request, withId \in BOOLEAN :
        LET payload == payloads[sent + 1]
            ids == IF withId THEN Append(created_row_ids, next_id) ELSE created_row_ids
        IN /\ posts' = IF Issued(r)
                       THEN Append(posts, [row |-> payload.row, data |-> payload.data,
                                           ok |-> r = "ok", id |-> next_id,
                                           withId |-> withId])
                       ELSE posts
           /\ IF raise_for_status(r)
              THEN /\ Raise(r)
                   /\ withId  \* a failed request has no response body to vary
                   /\ UNCHANGED <<table, next_id, sent, created_row_ids, result>>
              ELSE /\ table' = Append(table, [id |-> next_id, hasId |-> withId])
                   /\ next_id' = next_id + 1
                   /\ sent' = sent + 1
                   /\ created_row_ids' = ids
                   /\ IF sent + 1 = Len(payloads)
                      THEN upc' = "returned" /\ result' = PyList(ids)
                      ELSE upc' = "insert" /\ result' = result
                   /\ error' = error
    /\ UNCHANGED <<configured, remote_columns, table0, dataframe, replace,
                   column_map, pending, deleted, payloads, reads, deletes>>
    /\ UNCHANGED <<fetchVars, decodeVars, resolveVars, familyVars>>

(***************************************************************************)
(* Inputs of the upload specification.                                     *)
(***************************************************************************)
\* the target table's columns: "a" (id 1) and "b" (id 2)
TargetColumns == <<[id |-> 1, title |-> "a"], [id |-> 2, title |-> "b"]>>

CellValues == {NaN, PyInt(7), NpInt(7)}

FrameColumns == {<<>>, <<"a">>, <<"a", "b">>, <<"a", "x">>}

FramesOver(c) ==
    {[columns |-> c, rows |-> rs] :
        rs \in UNION {[1..n -> [Range(c) -> CellValues]] : n \in 0..MaxDfRows}}

DataFrames == UNION {FramesOver(c) : c \in FrameColumns}

\* the frames uploaded to a table of more than one page
FewDataFrames ==
    {df \in DataFrames : df.columns = <<"a">> /\ \A k \in 1..Len(df.rows) : df.rows[k]["a"] = PyInt(7)}

\* rows 1..n, each with or without an "id" in its JSON
SmallTables ==
    UNION {{[k \in 1..n |-> [id |-> k, hasId |-> h[k]]] : h \in [1..n -> BOOLEAN]} :
           n \in 0..MaxRows}

\* tables of exactly one full page and of one page and one row
BigTables ==
    {[k \in 1..n |-> [id |-> k, hasId |-> TRUE]] : n \in {batch_size, batch_size + 1}}

UploadInit ==
    /\ configured \in BOOLEAN
    /\ remote_columns = TargetColumns
    /\ \/ table \in SmallTables /\ dataframe \in DataFrames
       \/ table \in BigTables /\ dataframe \in FewDataFrames
    /\ table0 = table
    /\ next_id = Len(table) + 1
    /\ replace \in BOOLEAN
    /\ upc = "call"
    /\ column_map = <<>>
    /\ pending = <<>>
    /\ deleted = 0
    /\ payloads = <<>>
    /\ sent = 0
    /\ created_row_ids = <<>>
    /\ result = PyNone
    /\ error = "none"
    /\ reads = {}
    /\ deletes = <<>>
    /\ posts = <<>>
    /\ FetchIdle
    /\ DecodeIdle
    /\ ResolveIdle
    /\ FamilyIdle

UploadNext ==
    \/ UploadCall
    \/ GetColumns
    \/ ClearGet
    \/ ClearDelete
    \/ Insert

SpecUpload == UploadInit /\ [][UploadNext]_vars

(***************************************************************************)
(* clear_table as upload_to_table(replace=True) calls it, on small tables. *)
(***************************************************************************)
\* the frames uploaded after the table was cleared
OneColumnFrames == {df \in DataFrames : df.columns = <<"a">>}

ClearInit ==
    /\ configured = TRUE
    /\ remote_columns = TargetColumns
    /\ table \in SmallTables
    /\ dataframe \in OneColumnFrames
    /\ table0 = table
    /\ next_id = Len(table) + 1
    /\ replace = TRUE
    /\ upc = "call"
    /\ column_map = <<>>
    /\ pending = <<>>
    /\ deleted = 0
    /\ payloads = <<>>
    /\ sent = 0
    /\ created_row_ids = <<>>
    /\ result = PyNone
    /\ error = "none"
    /\ reads = {}
    /\ deletes = <<>>
    /\ posts = <<>>
    /\ FetchIdle
    /\ DecodeIdle
    /\ ResolveIdle
    /\ FamilyIdle

\* a step of the call in which no request fails
NoFailure == UploadNext /\ error' = "none"

\* the code runs on by itself, and a request that can succeed does not fail
\* for ever
SpecClear == ClearInit /\ [][UploadNext]_vars /\ WF_vars(NoFailure)

(***************************************************************************)
(* fetch_data.py: pure helpers                                             *)
(***************************************************************************)

\* Python dicts as their items in insertion order
DictKeys(d) == {d[k][1] : k \in 1..Len(d)}

DictGet(d, key) == d[CHOOSE k \in 1..Len(d) : d[k][1] = key][2]

\* d[key] = val: a new key goes last, a known key keeps its place
DictSet(d, key, val) ==
    IF key \in DictKeys(d)
    THEN [k \in 1..Len(d) |-> IF d[k][1] = key THEN <<key, val>> ELSE d[k]]
    ELSE Append(d, <<key, val>>)

RECURSIVE strip(_)
\* str.strip(), as far as startswith then looks: leading blanks dropped
strip(s) ==
    IF Len(s) > 0 /\ SubSeq(s, 1, 1) = " " THEN strip(SubSeq(s, 2, Len(s))) ELSE s

startswith(s, c) == Len(s) > 0 /\ SubSeq(s, 1, 1) = c

\* ast.literal_eval on the string literals of the model: the value, or the
\* exception it raises
literal_eval(s) ==
    CASE s = "[{'b': 1}, {'b': 2}]" ->
            [exc |-> "none",
             val |-> PyList(<<PyDict(<< <<"b", PyInt(1)>> >>), PyDict(<< <<"b", PyInt(2)>> >>)>>)]
      [] s = "{'value': 1}" ->
            [exc |-> "none", val |-> PyDict(<< <<"value", PyInt(1)>> >>)]
      [] s = "[oops" -> [exc |-> "SyntaxError", val |-> PyNone]
      [] s = "{[1]: 2}" -> [exc |-> "TypeError", val |-> PyNone]
      [] OTHER -> [exc |-> "ValueError", val |-> PyNone]

\* whether _parse_complex_value hands the value to ast.literal_eval
looks_complex(value) ==
    /\ value[1] = "str"
    /\ startswith(strip(value[2]), "[") \/ startswith(strip(value[2]), "{")

\* _parse_complex_value: the parsed literal, or the value itself when it is
\* no string, does not look like a list/dict, or fails with ValueError or
\* SyntaxError
_parse_complex_value(value) ==
    IF looks_complex(value) /\ literal_eval(value[2]).exc = "none"
    THEN literal_eval(value[2]).val
    ELSE value

\* _parse_complex_value catches ValueError and SyntaxError only
parse_raises(value) ==
    /\ looks_complex(value)
    /\ literal_eval(value[2]).exc \notin {"none", "ValueError", "SyntaxError"}

\* int(x) for an int or a str: the number, or ValueError
int(value) ==
    IF value[1] = "int" THEN [exc |-> "none", n |-> value[2]]
    ELSE IF value[1] = "str" /\ \E n \in 0..99 : str(n) = strip(value[2])
    THEN [exc |-> "none", n |-> CHOOSE n \in 0..99 : str(n) = strip(value[2])]
    ELSE [exc |-> "ValueError", n |-> 0]

\* _build_column_mappings, column_mapping: column id -> title
column_mapping_of(columns) ==
    [k \in 1..Len(columns) |-> <<columns[k].id, columns[k].title>>]

\* the options of one select column: option id -> label, labels that are
\* empty left out
select_options_of(col) ==
    LET kept == SelectSeq(col.selectionOptions, LAMBDA o : o.label # "")
    IN [k \in 1..Len(kept) |-> <<kept[k].id, kept[k].label>>]

\* _build_column_mappings, select_mappings: column id -> its options, for
\* select/selection columns that have any
select_mappings_of(columns) ==
    LET sel == SelectSeq(columns,
                   LAMBDA col : /\ col.type \in {"select", "selection"}
                                /\ select_options_of(col) # <<>>)
    IN [k \in 1..Len(sel) |-> <<sel[k].id, select_options_of(sel[k])>>]

\* an unknown option id falls back to the id before it
_process_value_fallback_previous(value, col_id, select_mappings) ==
    LET parsed_value == _parse_complex_value(value)
    IN IF col_id \in DictKeys(select_mappings) /\ parsed_value[1] \in {"int", "str"}
       THEN LET option_id == int(parsed_value)
                options == DictGet(select_mappings, col_id)
            IN IF option_id.exc = "none" /\ option_id.n \in DictKeys(options)
               THEN PyStr(DictGet(options, option_id.n))
               ELSE IF option_id.exc = "none" /\ option_id.n > 0
               THEN PyInt(option_id.n - 1)
               ELSE parsed_value
       ELSE parsed_value

\* _process_value: parse, then for a select column turn an option id (int
\* or numeric string) into its label
_process_value(value, col_id, select_mappings) ==
    LET parsed_value == _parse_complex_value(value)
    IN IF col_id \in DictKeys(select_mappings) /\ parsed_value[1] \in {"int", "str"}
       THEN LET option_id == int(parsed_value)
                options == DictGet(select_mappings, col_id)
            IN IF option_id.exc = "none" /\ option_id.n \in DictKeys(options)
               THEN PyStr(DictGet(options, option_id.n))
               ELSE parsed_value
       ELSE parsed_value

\* "list of dicts (complex data)": lines 145-150 and 170-175
is_explodable(parsed_value, expl) ==
    /\ expl
    /\ parsed_value[1] = "list"
    /\ parsed_value[2] # <<>>
    /\ parsed_value[2][1][1] = "dict"

\* lines 144-153 and 169-178: the value goes to one of the two dicts
Store(acc, column_name, parsed_value, expl) ==
    IF is_explodable(parsed_value, expl)
    THEN [acc EXCEPT !.explodable = DictSet(@, column_name, parsed_value)]
    ELSE [acc EXCEPT !.base = DictSet(@, column_name, parsed_value)]

RECURSIVE ProcessList(_, _, _, _, _)
\* lines 132-153: row["data"] is a list of {columnId, value}
ProcessList(items, acc, column_mapping, select_mappings, expl) ==
    IF items = <<>> THEN acc
    ELSE LET data_item == Head(items)
             col_id == data_item.columnId
             next == IF data_item.wellformed /\ col_id \in DictKeys(column_mapping)
                     THEN Store(acc, DictGet(column_mapping, col_id),
                                _process_value(data_item.value, col_id, select_mappings), expl)
                     ELSE acc
         IN ProcessList(Tail(items), next, column_mapping, select_mappings, expl)

is_wrapper(value) == value[1] = "dict" /\ "value" \in DictKeys(value[2])

\* lines 162-165: a {"value": ...} wrapper gives its value
unwrap(value) == IF is_wrapper(value) THEN DictGet(value[2], "value") ELSE value

key_as_given(key) == IF key[1] = "int" THEN key[2] ELSE -1

\* line 158: col_id_int = int(col_id)
col_id_int(key) == int(key).n

RECURSIVE ProcessDict(_, _, _, _, _)
\* lines 157-178: row["data"] is a mapping column id -> value
ProcessDict(items, acc, column_mapping, select_mappings, expl) ==
    IF items = <<>> THEN acc
    ELSE LET col_id == col_id_int(Head(items)[1])
             actual_value == unwrap(Head(items)[2])
             next == IF col_id \in DictKeys(column_mapping)
                     THEN Store(acc, DictGet(column_mapping, col_id),
                                _process_value(actual_value, col_id, select_mappings), expl)
                     ELSE acc
         IN ProcessDict(Tail(items), next, column_mapping, select_mappings, expl)

\* _process_row_data: (base_row_dict, explodable_columns); row.data is
\* <<form, items>>, the form being "list", "dict" or "none"
_process_row_data(row, column_mapping, select_mappings, expl) ==
    LET none == [base |-> <<>>, explodable |-> <<>>]
    IN IF row.data[1] = "none" \/ row.data[2] = <<>> THEN none
       ELSE IF row.data[1] = "list"
       THEN ProcessList(row.data[2], none, column_mapping, select_mappings, expl)
       ELSE ProcessDict(row.data[2], none, column_mapping, select_mappings, expl)

\* the exceptions _process_row_data lets through: int() of a mapping key
\* that is no number, and a literal ast.literal_eval fails on with another
\* error than the two that are caught
process_raises(row, column_mapping) ==
    /\ row.data[1] # "none"
    /\ \E k \in 1..Len(row.data[2]) :
        LET it == row.data[2][k]
        IN IF row.data[1] = "list"
           THEN /\ it.wellformed
                /\ it.columnId \in DictKeys(column_mapping)
                /\ parse_raises(it.value)
           ELSE \/ int(it[1]).exc # "none"
                \/ /\ col_id_int(it[1]) \in DictKeys(column_mapping)
                   /\ parse_raises(unwrap(it[2]))

Max(S) == CHOOSE m \in S : \A n \in S : n <= m

RECURSIVE FlattenItem(_, _, _)
\* lines 199-201: every key of the element becomes the column {col}_{key}
FlattenItem(row_dict, col_name, item) ==
    IF item = <<>> THEN row_dict
    ELSE FlattenItem(DictSet(row_dict, col_name \o "_" \o Head(item)[1], Head(item)[2]),
                     col_name, Tail(item))

RECURSIVE ExplodeColumns(_, _, _)
\* lines 194-204, for output row i (from 1)
ExplodeColumns(row_dict, explodable, i) ==
    IF explodable = <<>> THEN row_dict
    ELSE LET col_name == Head(explodable)[1]
             items == Head(explodable)[2][2]
             next == IF i <= Len(items)
                     THEN IF items[i][1] = "dict"
                          THEN FlattenItem(row_dict, col_name, items[i][2])
                          ELSE DictSet(row_dict, col_name, items[i])
                     ELSE row_dict
         IN ExplodeColumns(next, Tail(explodable), i)

\* _explode_row: one dict per element index up to the longest list
_explode_row(base_row_dict, explodable_columns) ==
    LET max_items == Max({Len(explodable_columns[k][2][2]) : k \in 1..Len(explodable_columns)})
    IN [i \in 1..max_items |-> ExplodeColumns(base_row_dict, explodable_columns, i)]

\* fetch_table_data, lines 258-266, for one source row
ProcessedRowsOf(row, column_mapping, select_mappings, expl) ==
    LET p == _process_row_data(row, column_mapping, select_mappings, expl)
    IN IF expl /\ p.explodable # <<>>
       THEN _explode_row(p.base, p.explodable)
       ELSE <<p.base>>

RECURSIVE ProcessedRows(_, _, _, _)
\* fetch_table_data, lines 256-266: processed_rows, the rows of every source
\* row in source order (computed by halves)
ProcessedRows(rows, column_mapping, select_mappings, expl) ==
    IF rows = <<>> THEN <<>>
    ELSE IF Len(rows) = 1
    THEN ProcessedRowsOf(rows[1], column_mapping, select_mappings, expl)
    ELSE LET h == Len(rows) \div 2
         IN ProcessedRows(SubSeq(rows, 1, h), column_mapping, select_mappings, expl)
            \o ProcessedRows(SubSeq(rows, h + 1, Len(rows)), column_mapping,
                             select_mappings, expl)

\* a DataFrame: its column labels in order and its rows, label -> value
PyFrame(columns, rows) == <<"frame", [columns |-> columns, rows |-> rows]>>

RECURSIVE KeysInOrder(_)
\* the keys of a list of dicts, in order of first appearance (computed by
\* halves)
KeysInOrder(dicts) ==
    IF dicts = <<>> THEN <<>>
    ELSE IF Len(dicts) = 1
    THEN [k \in 1..Len(dicts[1]) |-> dicts[1][k][1]]
    ELSE LET h == Len(dicts) \div 2
             left == KeysInOrder(SubSeq(dicts, 1, h))
             right == KeysInOrder(SubSeq(dicts, h + 1, Len(dicts)))
         IN left \o SelectSeq(right, LAMBDA key : key \notin Range(left))

\* pd.DataFrame(list of dicts): a key a row lacks is NaN in that row
DataFrameOf(dicts) ==
    LET columns == KeysInOrder(dicts)
    IN [columns |-> columns,
        rows |-> [k \in 1..Len(dicts) |->
                    [c \in Range(columns) |->
                        IF c \in DictKeys(dicts[k]) THEN DictGet(dicts[k], c) ELSE NaN]]]

\* DataFrame.reindex(columns=labels): a label the frame lacks is NaN
reindex(df, labels) ==
    [columns |-> labels,
     rows |-> [k \in 1..Len(df.rows) |->
                 [c \in Range(labels) |->
                    IF c \in Range(df.columns) THEN df.rows[k][c] ELSE NaN]]]

Titles(columns) == [k \in 1..Len(columns) |-> columns[k].title]

_finalize_dataframe_df_order(df, columns, column_mapping, expl) == df

\* _finalize_dataframe: every title present (None where it was missing),
\* the API's columns first and in the API's order
_finalize_dataframe(df, columns, column_mapping, expl) ==
    LET titles == [k \in 1..Len(column_mapping) |-> column_mapping[k][2]]
        missing == SelectSeq(titles, LAMBDA ttl : ttl \notin Range(df.columns))
        filled == [columns |-> df.columns \o missing,
                   rows |-> [k \in 1..Len(df.rows) |->
                               [c \in Range(df.columns \o missing) |->
                                  IF c \in Range(df.columns) THEN df.rows[k][c] ELSE PyNone]]]
        original_columns == [k \in 1..Len(columns) |-> DictGet(column_mapping, columns[k].id)]
        exploded_columns == SelectSeq(filled.columns, LAMBDA c : c \notin Range(original_columns))
    IN IF ~expl THEN reindex(filled, original_columns)
       ELSE reindex(filled, original_columns \o exploded_columns)

(***************************************************************************)
(* fetch_data.py: fetch_table_data and _fetch_all_rows                     *)
(***************************************************************************)

\* requests.get + raise_for_status: what one GET can end in
fetch_data == {"ok", "HTTPError"}

fetch_data_raises_never(r) == FALSE

\* fetch_data, line 46: response.raise_for_status()
fetch_data_raises(r) == r # "ok"

next_offset_by_one(off, lim) == off + 1

\* _fetch_all_rows, line 99: offset += limit
next_offset(off, lim) == off + lim

FetchRaise(e) ==
    /\ fpc' = "raised"
    /\ ferror' = e

\* what follows the loop of _fetch_all_rows: its own return, or lines
\* 251-270 of fetch_table_data
FetchFinish(rows) ==
    IF entry = "_fetch_all_rows"
    THEN /\ fpc' = "returned"
         /\ fresult' = PyList(rows)
         /\ ferror' = ferror
    ELSE LET column_mapping == column_mapping_of(columns_data)
             select_mappings == select_mappings_of(columns_data)
         IN IF rows = <<>>
            THEN /\ fpc' = "returned"
                 /\ fresult' = PyFrame([k \in 1..Len(column_mapping) |-> column_mapping[k][2]], <<>>)
                 /\ ferror' = ferror
            ELSE IF \E k \in 1..Len(rows) : process_raises(rows[k], column_mapping)
            THEN /\ FetchRaise("TypeError")
                 /\ fresult' = fresult
            ELSE LET df == _finalize_dataframe(
                               DataFrameOf(ProcessedRows(rows, column_mapping,
                                                         select_mappings, explode)),
                               columns_data, column_mapping, explode)
                 IN /\ fpc' = "returned"
                    /\ fresult' = PyFrame(df.columns, df.rows)
                    /\ ferror' = ferror

\* fetch_table_data, lines 245-246: GET the column definitions
FetchColumns ==
    /\ fpc = "columns"
    /\ \E r \in fetch_data :
        /\ requests' = Append(requests, [kind |-> "columns", offset |-> 0, ok |-> r = "ok"])
        /\ IF fetch_data_raises(r)
           THEN FetchRaise(r) /\ UNCHANGED columns_data
           ELSE /\ columns_data' = api_columns
                /\ fpc' = "rows"
                /\ ferror' = ferror
    /\ UNCHANGED <<api_columns, api_rows, entry, limit, explode, offset, all_rows, fresult>>
    /\ UNCHANGED <<uploadVars, decodeVars, resolveVars, familyVars>>

\* _fetch_all_rows, lines 84-101: GET one page; after the last page the
\* caller's remaining code runs
FetchPage ==
    /\ fpc = "rows"
    /\ \E r \in fetch_data :
        /\ requests' = Append(requests, [kind |-> "rows", offset |-> offset, ok |-> r = "ok"])
        /\ IF fetch_data_raises(r)
           THEN FetchRaise(r) /\ UNCHANGED <<offset, all_rows, fresult>>
           ELSE LET rows_data == RowsPage(api_rows, limit, offset)
                IN IF rows_data = <<>>
                   THEN FetchFinish(all_rows) /\ UNCHANGED <<offset, all_rows>>
                   ELSE /\ all_rows' = all_rows \o rows_data
                        /\ IF Len(rows_data) < limit
                           THEN FetchFinish(all_rows \o rows_data) /\ UNCHANGED offset
                           ELSE /\ offset' = next_offset(offset, limit)
                                /\ UNCHANGED <<fpc, fresult, ferror>>
    /\ UNCHANGED <<api_columns, api_rows, entry, limit, explode, columns_data>>
    /\ UNCHANGED <<uploadVars, decodeVars, resolveVars, familyVars>>

(***************************************************************************)
(* Inputs of the fetch specification.                                      *)
(***************************************************************************)
ColA == [id |-> 1, title |-> "a", type |-> "text", selectionOptions |-> <<>>]

\* a selection column; the label of option 1 reads like the id of option 2
ColC == [id |-> 2, title |-> "c", type |-> "selection",
         selectionOptions |-> <<[id |-> 1, label |-> "2"], [id |-> 2, label |-> "x"]>>]

ColAB == [id |-> 3, title |-> "a_b", type |-> "text", selectionOptions |-> <<>>]

ColumnLists == {<<>>, <<ColA>>, <<ColC, ColA>>}

Item(col_id, value) == [wellformed |-> TRUE, columnId |-> col_id, value |-> value]

\* a row's "data": the pair <<form, items>>
ListData(items) == <<"list", items>>

DictData(items) == <<"dict", items>>

\* no "data" key, or a value that is falsy
NoData == <<"none", <<>> >>

\* what the "data" of a fetched row is drawn from
RowDatas ==
    { NoData,
      ListData(<<Item(1, PyInt(1))>>),
      ListData(<<Item(2, PyStr("2")), Item(5, PyInt(1)),
                 [wellformed |-> FALSE, columnId |-> 1, value |-> PyNone]>>),
      DictData(<< <<PyStr("1"), PyDict(<< <<"value", PyStr("[oops")>> >>)>>,
                  <<PyInt(2), PyInt(1)>> >>),
      ListData(<<Item(1, PyStr("[{'b': 1}, {'b': 2}]"))>>),
      ListData(<<Item(1, PyStr("{[1]: 2}"))>>) }

SmallSources ==
    UNION {{[k \in 1..n |-> [id |-> k, data |-> d[k]]] : d \in [1..n -> RowDatas]} :
           n \in 0..MaxFetchRows}

\* a source of exactly one full default page, and of one page and one row
BigSources ==
    {[k \in 1..n |-> [id |-> k, data |-> ListData(<<Item(1, PyInt(1))>>)]] :
        n \in {default_limit, default_limit + 1}}

\* fetch_table_data(table_id, explode) is called
FetchInit ==
    /\ api_columns \in ColumnLists
    /\ api_rows \in SmallSources \cup BigSources
    /\ entry = "fetch_table_data"
    /\ limit = default_limit
    /\ explode \in BOOLEAN
    /\ fpc = "columns"
    /\ columns_data = <<>>
    /\ offset = 0
    /\ all_rows = <<>>
    /\ requests = <<>>
    /\ fresult = PyNone
    /\ ferror = "none"
    /\ UploadIdle
    /\ DecodeIdle
    /\ ResolveIdle
    /\ FamilyIdle

FetchNext ==
    \/ FetchColumns
    \/ FetchPage

SpecFetch == FetchInit /\ [][FetchNext]_vars

\* _fetch_all_rows(table_id, limit) is called on its own
PagingInit ==
    /\ api_columns \in ColumnLists
    /\ api_rows \in SmallSources
    /\ entry = "_fetch_all_rows"
    /\ limit \in 1..MaxLimit
    /\ explode = FALSE
    /\ fpc = "rows"
    /\ columns_data = <<>>
    /\ offset = 0
    /\ all_rows = <<>>
    /\ requests = <<>>
    /\ fresult = PyNone
    /\ ferror = "none"
    /\ UploadIdle
    /\ DecodeIdle
    /\ ResolveIdle
    /\ FamilyIdle

PagingNext == FetchPage

\* requests are synchronous and the loop has no other exit: a call that can
\* issue its next request does so
SpecPaging == PagingInit /\ [][PagingNext]_vars /\ WF_vars(PagingNext)

(***************************************************************************)
(* fetch_data.py: one source row through _process_row_data, _explode_row   *)
(* and the DataFrame construction.                                         *)
(***************************************************************************)
DecodeColumns == <<ColA, ColC, ColAB>>

\* the column ids a pair may name: those of the three columns
PairIds == {1, 2, 3}

PairValues ==
    { PyInt(1), PyStr("2"), PyStr("[oops"), PyStr("[{'b': 1}, {'b': 2}]"),
      PyList(<<PyDict(<< <<"b", PyInt(3)>> >>)>>),
      PyDict(<< <<"value", PyInt(1)>> >>), PyNone }

PairSeqs ==
    UNION {{p \in [1..n -> [columnId : PairIds, value : PairValues]] :
                \A j, k \in 1..n : j < k => p[j].columnId < p[k].columnId} :
           n \in 0..MaxPairs}

Shapes(n) == [1..n -> [key : {"int", "str"}, wrapped : BOOLEAN]]

\* the row whose "data" is the list [{columnId, value}, ...]
ListRow(p) ==
    [id |-> 1, data |-> ListData([k \in 1..Len(p) |-> Item(p[k].columnId, p[k].value)])]

\* the row whose "data" is the mapping {column id: value or {"value": value}}
DictRow(p, sh) ==
    [id |-> 1,
     data |-> DictData([k \in 1..Len(p) |->
                <<IF sh[k].key = "int" THEN PyInt(p[k].columnId) ELSE PyStr(str(p[k].columnId)),
                  IF sh[k].wrapped THEN PyDict(<< <<"value", p[k].value>> >>) ELSE p[k].value>>])]

DecodeInit ==
    /\ pairs \in PairSeqs
    /\ shape \in Shapes(Len(pairs))
    /\ dexplode \in BOOLEAN
    /\ dpc = "input"
    /\ from_list = <<>>
    /\ from_dict = <<>>
    /\ out_rows = <<>>
    /\ out_frame = <<>>
    /\ UploadIdle
    /\ FetchIdle
    /\ ResolveIdle
    /\ FamilyIdle

\* the row is decoded from both forms, and the list form is taken through
\* lines 258-270 of fetch_table_data
Decode ==
    /\ dpc = "input"
    /\ dpc' = "decoded"
    /\ LET column_mapping == column_mapping_of(DecodeColumns)
           select_mappings == select_mappings_of(DecodeColumns)
           processed == ProcessedRowsOf(ListRow(pairs), column_mapping, select_mappings, dexplode)
       IN /\ from_list' = _process_row_data(ListRow(pairs), column_mapping,
                                            select_mappings, dexplode)
          /\ from_dict' = _process_row_data(DictRow(pairs, shape), column_mapping,
                                            select_mappings, dexplode)
          /\ out_rows' = processed
          /\ out_frame' = _finalize_dataframe(DataFrameOf(processed), DecodeColumns,
                                              column_mapping, dexplode)
    /\ UNCHANGED <<pairs, shape, dexplode>>
    /\ UNCHANGED <<uploadVars, fetchVars, resolveVars, familyVars>>

DecodeNext == Decode

SpecDecode == DecodeInit /\ [][DecodeNext]_vars

(***************************************************************************)
(* fetch_data.py: _process_value applied to a value of one select column,  *)
(* and applied again to what it gave.                                      *)
(***************************************************************************)
\* the value of a cell of the column, resolved as fetch_table_data does
resolve(value, column) ==
    _process_value(value, column.id, select_mappings_of(<<column>>))

OptionLabels == {"x", "1", "2", "", "[{'b': 1}, {'b': 2}]"}

\* option lists of ascending ids
OptionLists ==
    UNION {{o \in [1..n -> [id : 1..MaxOptions, label : OptionLabels]] :
                \A j, k \in 1..n : j < k => o[j].id < o[k].id} :
           n \in 0..MaxOptions}

SelectColumns ==
    {[id |-> 2, title |-> "c", type |-> t, selectionOptions |-> o] :
        t \in {"select", "selection"}, o \in OptionLists}

RawValues ==
    { PyInt(1), PyInt(2), PyInt(MaxOptions + 1), PyStr("1"), PyStr("2"), PyStr(" 2"),
      PyStr("x"), PyStr("[{'b': 1}, {'b': 2}]"), PyStr("[oops"), PyNone }

ResolveInit ==
    /\ select_column \in SelectColumns
    /\ raw_value \in RawValues
    /\ rpc = "input"
    /\ once = PyNone
    /\ twice = PyNone
    /\ UploadIdle
    /\ FetchIdle
    /\ DecodeIdle
    /\ FamilyIdle

\* the raw value is resolved
Resolve ==
    /\ rpc = "input"
    /\ once' = resolve(raw_value, select_column)
    /\ rpc' = "once"
    /\ UNCHANGED <<select_column, raw_value, twice>>
    /\ UNCHANGED <<uploadVars, fetchVars, decodeVars, familyVars>>

\* what the resolution gave is resolved again
ResolveAgain ==
    /\ rpc = "once"
    /\ twice' = resolve(once, select_column)
    /\ rpc' = "twice"
    /\ UNCHANGED <<select_column, raw_value, once>>
    /\ UNCHANGED <<uploadVars, fetchVars, decodeVars, familyVars>>

ResolveNext ==
    \/ Resolve
    \/ ResolveAgain

SpecResolve == ResolveInit /\ [][ResolveNext]_vars

(***************************************************************************)
(* transform/transform_data.py: create_family_hours_table.                 *)
(* A DataFrame is the list of its rows, a row a function from column name  *)
(* to cell. Stunden are floats that are multiples of a quarter of an hour, *)
(* held as their number of quarters; on the sums of the model the float    *)
(* arithmetic of line 90 is exact.                                         *)
(***************************************************************************)
\* the number of Stunden units in one hour
HoursUnit == 4

\* the float q / HoursUnit
PyFloat(q) == <<"float", q>>

\* a parsed datetime64[s] cell: <<year, month, day, hour, minute, second>>
Timestamp(t) == <<"ts", t>>

NaT == <<"nat", 0>>

\* pd.isna / Series.isna on one cell
isna(value) == value[1] \in {"nan", "none", "nat"}

target_hours_dict_default ==
    [key \in BOOLEAN \X (0..9) |->
        IF key = <<FALSE, 1>> THEN 102
        ELSE IF key[1] = FALSE THEN 132
        ELSE IF key = <<TRUE, 1>> THEN 50
        ELSE 60]

\* lines 25-31
target_hours_dict ==
    (<<FALSE, 1>> :> 102) @@ (<<FALSE, 2>> :> 132) @@ (<<FALSE, 3>> :> 132)
        @@ (<<TRUE, 1>> :> 50) @@ (<<TRUE, 2>> :> 60)

IsDigits(s) ==
    \A k \in 1..Len(s) : \E n \in 1..10 : Digit[n] = SubSeq(s, k, k)

DigitValue(c) == CHOOSE n \in 0..9 : Digit[n + 1] = c

RECURSIVE Num(_)
\* the number a string of decimal digits denotes
Num(s) ==
    IF Len(s) = 0 THEN 0
    ELSE Num(SubSeq(s, 1, Len(s) - 1)) * 10 + DigitValue(SubSeq(s, Len(s), Len(s)))

\* the fields of "YYYY-MM-DD" or "YYYY-MM-DD HH:MM:SS" as written
DateFields(s) ==
    <<SubSeq(s, 1, 4), SubSeq(s, 6, 7), SubSeq(s, 9, 10)>>
        \o (IF Len(s) = 19
            THEN <<SubSeq(s, 12, 13), SubSeq(s, 15, 16), SubSeq(s, 18, 19)>>
            ELSE <<"00", "00", "00">>)

\* whether pandas parses the string as a datetime, for the two formats of
\* the model
IsDateString(s) ==
    /\ Len(s) \in {10, 19}
    /\ SubSeq(s, 5, 5) = "-" /\ SubSeq(s, 8, 8) = "-"
    /\ Len(s) = 19 =>
        SubSeq(s, 11, 11) = " " /\ SubSeq(s, 14, 14) = ":" /\ SubSeq(s, 17, 17) = ":"
    /\ \A k \in 1..6 : IsDigits(DateFields(s)[k])
    /\ Num(DateFields(s)[2]) \in 1..12
    /\ Num(DateFields(s)[3]) \in 1..31
    /\ Num(DateFields(s)[4]) \in 0..23
    /\ Num(DateFields(s)[5]) \in 0..59
    /\ Num(DateFields(s)[6]) \in 0..59

\* the datetime a string is parsed to, or the exception
to_datetime(s) ==
    IF IsDateString(s)
    THEN [exc |-> "none", val |-> Timestamp([k \in 1..6 |-> Num(DateFields(s)[k])])]
    ELSE [exc |-> "ValueError", val |-> NaT]

\* astype({"Datum": "datetime64[s]"}) on one cell: a missing value is NaT
astype_datetime(value) ==
    IF isna(value) THEN [exc |-> "none", val |-> NaT]
    ELSE to_datetime(value[2])

\* a < b on two datetimes
ts_lt(a, b) ==
    \E k \in 1..6 : a[2][k] < b[2][k] /\ \A j \in 1..(k - 1) : a[2][j] = b[2][j]

\* line 35, the query '{kita_year}-09-01' < Datum < '{kita_year + 1}-09-01':
\* both comparisons are strict, and NaT compares false
between_inclusive_start(datum, year) ==
    /\ datum[1] = "ts"
    /\ ~ts_lt(datum, to_datetime(str(year) \o "-09-01").val)
    /\ ts_lt(datum, to_datetime(str(year + 1) \o "-09-01").val)

between(datum, year) ==
    /\ datum[1] = "ts"
    /\ ts_lt(to_datetime(str(year) \o "-09-01").val, datum)
    /\ ts_lt(datum, to_datetime(str(year + 1) \o "-09-01").val)

\* object + object on two string cells: missing where either is missing
str_add(a, b) == IF isna(a) \/ isna(b) THEN NaN ELSE PyStr(a[2] \o b[2])

\* a == b on two cells: a missing value equals nothing
cell_eq(a, b) == ~isna(a) /\ ~isna(b) /\ a = b

\* lines 40-45: the Familie of one names row
Familie(row) ==
    IF cell_eq(row["Nachname Mutter"], row["Nachname Vater"]) \/ isna(row["Nachname Vater"])
    THEN row["Nachname Mutter"]
    ELSE str_add(str_add(row["Nachname Mutter"], PyStr(" & ")), row["Nachname Vater"])

\* line 46
alleinerziehend(row) == isna(row["Nachname Vater"])

RECURSIVE SumStunden(_)
\* Series.sum(): missing values are skipped
SumStunden(rows) ==
    IF rows = <<>> THEN 0
    ELSE (IF isna(Head(rows)["Stunden"]) THEN 0 ELSE Head(rows)["Stunden"][2])
         + SumStunden(Tail(rows))

\* lines 50-52: groupby("wer?_id")["Stunden"].sum().to_dict(); rows whose key
\* is missing belong to no group
hours_dict_of(hours) ==
    [a \in {hours[k]["wer?_id"][2] : k \in {j \in 1..Len(hours) : ~isna(hours[j]["wer?_id"])}} |->
        SumStunden(SelectSeq(hours, LAMBDA r : r["wer?_id"] = PyStr(a)))]

\* Series.count() of a group: the rows whose "Vorname Kind" is not missing
count(rows) == Len(SelectSeq(rows, LAMBDA r : ~isna(r["Vorname Kind"])))

\* lines 55-57: groupby("Familie")["Vorname Kind"].count().to_dict()
children_count_of(names) ==
    [f \in {names[k]["Familie"][2] : k \in {j \in 1..Len(names) : ~isna(names[j]["Familie"])}} |->
        count(SelectSeq(names, LAMBDA r : r["Familie"] = PyStr(f)))]

\* line 69: drop_duplicates(subset=["Familie"]) keeps the first row of every
\* Familie; two missing values count as duplicates
drop_duplicates(names) ==
    LET first(k) == \A j \in 1..(k - 1) : names[j]["Familie"] # names[k]["Familie"]
        kept == {k \in 1..Len(names) : first(k)}
        nth(n) == CHOOSE k \in kept : Cardinality({j \in kept : j < k}) = n - 1
    IN [n \in 1..Cardinality(kept) |-> names[nth(n)]]

map_fillna_minus_one(account, hdict) ==
    IF account[1] = "str" /\ account[2] \in DOMAIN hdict THEN hdict[account[2]] ELSE -1

\* lines 73, 76: Series.map(hours_dict).fillna(0) on one account cell
map_fillna(account, hdict) ==
    IF account[1] = "str" /\ account[2] \in DOMAIN hdict THEN hdict[account[2]] ELSE 0

\* line 79: Series.map(children_count) on one Familie cell
n_children_of(familie, ccount) ==
    IF familie[1] = "str" /\ familie[2] \in DOMAIN ccount THEN PyInt(ccount[familie[2]]) ELSE NaN

\* lines 82-84: the key looked up in target_hours_dict; a missing child
\* count is no key of the dict
target_key(row, ccount) ==
    <<row["alleinerziehend"], n_children_of(row["Familie"], ccount)[2]>>

has_target(row, ccount) ==
    /\ n_children_of(row["Familie"], ccount)[1] = "int"
    /\ target_key(row, ccount) \in DOMAIN target_hours_dict

\* np.round of the fraction num / den: halves go to the even neighbour
np_round(num, den) ==
    LET fl == num \div den
        twice_rem == 2 * (num % den)
    IN IF twice_rem < den THEN fl
       ELSE IF twice_rem > den THEN fl + 1
       ELSE IF fl % 2 = 0 THEN fl ELSE fl + 1

progress_uncapped(stunden_summe, target_hours) ==
    np_round(stunden_summe * 100, HoursUnit * target_hours)

\* lines 89-93: np.round(np.minimum(100, stunden_summe / target_hours * 100))
progress(stunden_summe, target_hours) ==
    IF stunden_summe * 100 >= 100 * HoursUnit * target_hours
    THEN np_round(100, 1)
    ELSE np_round(stunden_summe * 100, HoursUnit * target_hours)

\* lines 72-93 on one row of the deduplicated frame
FamilyRow(row, hdict, ccount) ==
    LET stunden1 == map_fillna(row["Nextcloudaccount Mutter"], hdict)
        stunden2 == map_fillna(row["Nextcloudaccount Vater"], hdict)
        target_hours == target_hours_dict[target_key(row, ccount)]
    IN [Familie |-> row["Familie"],
        alleinerziehend |-> row["alleinerziehend"],
        stunden1 |-> stunden1,
        stunden2 |-> stunden2,
        stunden_summe |-> stunden1 + stunden2,
        n_children |-> target_key(row, ccount)[2],
        target_hours |-> target_hours,
        progress |-> progress(stunden1 + stunden2, target_hours)]

\* line 94: the orders sort_values(by="progress", ascending=False) can leave
\* the rows in; the default sort is not stable
sort_values(rows) ==
    {sorted \in [1..Len(rows) -> Range(rows)] :
        /\ \A r \in Range(rows) :
              Cardinality({k \in 1..Len(rows) : sorted[k] = r})
                  = Cardinality({k \in 1..Len(rows) : rows[k] = r})
        /\ \A j, k \in 1..Len(rows) : j < k => sorted[j].progress >= sorted[k].progress}

\* lines 95-112: the helper columns dropped, the others renamed
drop_rename(row) ==
    ("Familie" :> row.Familie)
        @@ ("Stunden Mutter" :> PyFloat(row.stunden1))
        @@ ("Stunden Vater" :> PyFloat(row.stunden2))
        @@ ("Stunden IST" :> PyFloat(row.stunden_summe))
        @@ ("Stunden SOLL" :> PyInt(row.target_hours))
        @@ ("Fortschritt" :> PyInt(row.progress))

TRaise(e) ==
    /\ tpc' = "raised"
    /\ terror' = e

\* lines 34-36: the Datum column is parsed, then the rows of the Kita year
\* are kept
FilterKitaYear ==
    /\ tpc = "call"
    /\ IF \E k \in 1..Len(df_hours0) : astype_datetime(df_hours0[k]["Datum"]).exc # "none"
       THEN TRaise("ValueError") /\ UNCHANGED df_hours
       ELSE /\ df_hours' =
                 SelectSeq([k \in 1..Len(df_hours0) |->
                               [df_hours0[k] EXCEPT !["Datum"] = astype_datetime(@).val]],
                           LAMBDA r : between(r["Datum"], kita_year))
            /\ tpc' = "add_family"
            /\ terror' = terror
    /\ UNCHANGED <<df_hours0, df_names0, kita_year, df_names, hours_dict,
                   children_count, family_hours, treturn>>
    /\ UNCHANGED <<uploadVars, fetchVars, decodeVars, resolveVars>>

\* lines 39-46
AddFamily ==
    /\ tpc = "add_family"
    /\ df_names' = [k \in 1..Len(df_names0) |->
                       df_names0[k] @@ ("Familie" :> Familie(df_names0[k]))
                                    @@ ("alleinerziehend" :> alleinerziehend(df_names0[k]))]
    /\ tpc' = "dicts"
    /\ UNCHANGED <<df_hours0, df_names0, kita_year, df_hours, hours_dict,
                   children_count, family_hours, treturn, terror>>
    /\ UNCHANGED <<uploadVars, fetchVars, decodeVars, resolveVars>>

\* lines 50-57
BuildDicts ==
    /\ tpc = "dicts"
    /\ hours_dict' = hours_dict_of(df_hours)
    /\ children_count' = children_count_of(df_names)
    /\ tpc' = "family_hours"
    /\ UNCHANGED <<df_hours0, df_names0, kita_year, df_hours, df_names,
                   family_hours, treturn, terror>>
    /\ UNCHANGED <<uploadVars, fetchVars, decodeVars, resolveVars>>

\* lines 60-114: the chain on the deduplicated frame; a row whose key is not
\* in target_hours_dict raises KeyError out of the whole chain
BuildFamilyHours ==
    /\ tpc = "family_hours"
    /\ LET families == drop_duplicates(df_names)
       IN IF \E k \in 1..Len(families) : ~has_target(families[k], children_count)
          THEN TRaise("KeyError") /\ UNCHANGED <<family_hours, treturn>>
          ELSE \E sorted \in sort_values([k \in 1..Len(families) |->
                                FamilyRow(families[k], hours_dict, children_count)]) :
                  /\ family_hours' = sorted
                  /\ treturn' = [k \in 1..Len(sorted) |-> drop_rename(sorted[k])]
                  /\ tpc' = "returned"
                  /\ terror' = terror
    /\ UNCHANGED <<df_hours0, df_names0, kita_year, df_hours, df_names,
                   hours_dict, children_count>>
    /\ UNCHANGED <<uploadVars, fetchVars, decodeVars, resolveVars>>

(***************************************************************************)
(* Inputs of the family specification.                                     *)
(***************************************************************************)
HoursRow(wer, datum, stunden) ==
    ("wer?_id" :> wer) @@ ("Datum" :> datum) @@ ("Stunden" :> stunden)

NamesRow(mutter, vater, kind, account_mutter, account_vater) ==
    ("Nachname Mutter" :> mutter) @@ ("Nachname Vater" :> vater)
        @@ ("Vorname Kind" :> kind)
        @@ ("Nextcloudaccount Mutter" :> account_mutter)
        @@ ("Nextcloudaccount Vater" :> account_vater)

KitaYears == {2024, 2025}

\* dates around the two ends of the Kita year 2025, a missing date and a
\* string that is no date
DatumValues ==
    { PyStr("2025-08-31 23:59:59"), PyStr("2025-09-01"), PyStr("2025-09-01 00:00:01"),
      PyStr("2026-08-31 23:59:59"), PyStr("2026-09-01 00:00:00"),
      PyStr("2026-09-01 00:00:01"), NaN, PyStr("n/a") }

\* hours rows of one person that differ in their date
DateRows == {HoursRow(PyStr("m"), d, PyFloat(2)) : d \in DatumValues}

\* hours rows inside the Kita year 2025 that differ in person and amount
AmountRows ==
    {HoursRow(PyStr(a), PyStr("2025-10-01"), s) :
        a \in {"m", "v"}, s \in {PyFloat(1), PyFloat(2), PyFloat(2000), NaN}}
    \cup {HoursRow(NaN, PyStr("2025-10-01"), PyFloat(2))}

HoursTables ==
    UNION {[1..n -> DateRows \cup AmountRows] : n \in 0..MaxHours}

\* the hours tables the varied names tables are combined with
FewHoursTables ==
    {<<>>, <<HoursRow(PyStr("m"), PyStr("2025-10-01"), PyFloat(161))>>}

\* one child of: a single mother, a couple of one name, a couple of two
\* names, each with or without the child's first name, and a row without
\* the mother's name
NamesRows ==
    {NamesRow(PyStr("A"), v[1], kind, PyStr("m"), v[2]) :
        v \in {<<NaN, NaN>>, <<PyStr("A"), PyStr("v")>>, <<PyStr("B"), PyStr("v")>>},
        kind \in {PyStr("k"), NaN}}
    \cup {NamesRow(NaN, PyStr("B"), PyStr("k"), PyStr("m"), PyStr("v"))}

NamesTables ==
    UNION {[1..n -> NamesRows] : n \in 1..MaxNames}

\* the names tables the varied hours tables are combined with
FewNamesTables ==
    {<<NamesRow(PyStr("A"), NaN, PyStr("k"), PyStr("m"), NaN)>>,
     <<NamesRow(PyStr("A"), PyStr("B"), PyStr("k"), PyStr("m"), PyStr("v"))>>}

FamilyInit ==
    /\ \/ df_hours0 \in HoursTables /\ df_names0 \in FewNamesTables
       \/ df_hours0 \in FewHoursTables /\ df_names0 \in NamesTables
    /\ kita_year \in KitaYears
    /\ tpc = "call"
    /\ df_hours = <<>>
    /\ df_names = <<>>
    /\ hours_dict = <<>>
    /\ children_count = <<>>
    /\ family_hours = <<>>
    /\ treturn = <<>>
    /\ terror = "none"
    /\ UploadIdle
    /\ FetchIdle
    /\ DecodeIdle
    /\ ResolveIdle

FamilyNext ==
    \/ FilterKitaYear
    \/ AddFamily
    \/ BuildDicts
    \/ BuildFamilyHours

SpecFamily == FamilyInit /\ [][FamilyNext]_vars

(***************************************************************************)
(* Properties of upload_to_table and clear_table (SpecUpload).             *)
(***************************************************************************)
RemoteTitles == {remote_columns[k].title : k \in 1..Len(remote_columns)}

HasUnknownColumn ==
    /\ Len(dataframe.rows) > 0
    /\ \E k \in 1..Len(dataframe.columns) : dataframe.columns[k] \notin RemoteTitles

TableIds == {table[k].id : k \in 1..Len(table)}

\* C1: a non-empty DataFrame with a column name that is no title of the
\* remote table makes upload_to_table raise; no POST and no DELETE is ever
\* issued and the remote rows stay as they were, whatever replace is.
C1_UnknownColumnNoWrite ==
    HasUnknownColumn =>
        /\ posts = <<>>
        /\ deletes = <<>>
        /\ table = table0
        /\ upc \in {"call", "get_columns", "raised"}
        /\ result = PyNone

C1_Witness ==
    /\ HasUnknownColumn
    /\ upc = "raised"
    /\ error = "ValueError"
    /\ replace
    /\ table0 # <<>>

\* C2: with replace, once a POST has been issued clear_table has finished:
\* it has read the rows, deleted every row the table held at the call, and
\* none of those rows is left.
C2_ClearBeforeInsert ==
    (replace /\ posts # <<>>) =>
        /\ "rows" \in reads
        /\ \A k \in 1..Len(table0) : table0[k].id \notin TableIds
        /\ \A k \in 1..Len(table0) : table0[k].id \in Range(deletes)
        /\ deleted = Len(table0)

C2_Witness ==
    /\ replace
    /\ posts # <<>>
    /\ Len(table0) > batch_size

\* C3: when the insert of the k-th payload fails, the call ends raised with
\* the HTTP error, that POST is the last request issued (no later insert),
\* and the rows created before it are still in the table, none deleted.
C3_InsertFailureAborts ==
    \A k \in 1..Len(posts) :
        ~posts[k].ok =>
            /\ k = Len(posts)
            /\ upc = "raised"
            /\ error = "HTTPError"
            /\ result = PyNone
            /\ \A j \in 1..(k - 1) :
                /\ posts[j].ok
                /\ posts[j].id \in TableIds
                /\ posts[j].id \notin Range(deletes)

C3_Witness ==
    /\ Len(posts) = 2
    /\ posts[1].ok
    /\ ~posts[2].ok
    /\ replace
    /\ deletes # <<>>

\* the DataFrame rows holding at least one value that is not missing
LiveRows ==
    {k \in 1..Len(dataframe.rows) :
        \E c \in Range(dataframe.columns) : dataframe.rows[k][c][1] \notin {"nan", "none"}}

RECURSIVE IdsWithId(_)
IdsWithId(ps) ==
    IF ps = <<>> THEN <<>>
    ELSE (IF Head(ps).withId THEN <<Head(ps).id>> ELSE <<>>) \o IdsWithId(Tail(ps))

C6_ZeroRowsNoOp ==
    Len(dataframe.rows) = 0 =>
        /\ reads = {}
        /\ posts = <<>>
        /\ deletes = <<>>
        /\ table = table0
        /\ error = "none"
        /\ upc \in {"call", "returned"}
        /\ upc = "returned" => result = PyList(<<>>)

C6_Witness ==
    /\ Len(dataframe.rows) = 0
    /\ Len(dataframe.columns) > 0
    /\ upc = "returned"
    /\ result = PyList(<<>>)
    /\ replace
    /\ table0 # <<>>

(***************************************************************************)
(* Properties of fetch_table_data and _fetch_all_rows (SpecFetch).         *)
(***************************************************************************)
PageRequests == SelectSeq(requests, LAMBDA q : q.kind = "rows")

\* the loop of _fetch_all_rows has been left by one of its two breaks
PagingDone == fpc = "returned" \/ ferror = "TypeError"

C4_Paging ==
    /\ \A k \in 1..Len(PageRequests) : PageRequests[k].offset = (k - 1) * limit
    /\ \A k \in 1..(Len(PageRequests) - 1) :
        Len(RowsPage(api_rows, limit, PageRequests[k].offset)) = limit
    /\ PagingDone =>
        /\ PageRequests # <<>>
        /\ Len(RowsPage(api_rows, limit, PageRequests[Len(PageRequests)].offset)) < limit
        /\ all_rows = api_rows
    /\ (fpc = "returned" /\ entry = "_fetch_all_rows") => fresult = PyList(api_rows)

\* C4: over a static table and a fixed page size, _fetch_all_rows asks for
\* the offsets 0, L, 2L, ... in that order, every page before the last one
\* asked for was full and the last one is empty or short, the rows it
\* returns are the table's rows, each once, in server order, and the call
\* always comes to an end.
C4_FetchAllRows == [](C4_Paging) /\ <>(fpc \in {"returned", "raised"})

C4_Witness ==
    /\ entry = "_fetch_all_rows"
    /\ fpc = "returned"
    /\ limit = 2
    /\ Len(api_rows) = 3
    /\ Len(PageRequests) = 2
    /\ fresult = PyList(api_rows)

\* C7: a failed GET (the column definitions or any page of rows) ends the
\* call raised with the HTTP error: it is the last request issued, and
\* nothing is returned, whatever pages were fetched before.
C7_FetchFailureAborts ==
    \A k \in 1..Len(requests) :
        ~requests[k].ok =>
            /\ k = Len(requests)
            /\ fpc = "raised"
            /\ ferror = "HTTPError"
            /\ fresult = PyNone

C7_Witness ==
    /\ entry = "fetch_table_data"
    /\ Len(requests) = 3
    /\ ~requests[3].ok
    /\ all_rows # <<>>
    /\ fpc = "raised"
    /\ fresult = PyNone

\* whether the source row carries an entry for the column of this id
HasEntry(row, id) ==
    \E k \in 1..Len(row.data[2]) :
        IF row.data[1] = "list"
        THEN row.data[2][k].wellformed /\ row.data[2][k].columnId = id
        ELSE row.data[2][k][1] \in {PyInt(id), PyStr(str(id))}

IsNull(value) == value[1] \in {"none", "nan"}

\* C10: with explode=false a returned table has one row per source row (none
\* for an empty source), its header is the API's column titles in the API's
\* order, and every row has every title, null where the source row has no
\* entry for the column.
C10_RowPerSourceRow ==
    (entry = "fetch_table_data" /\ ~explode /\ fpc = "returned") =>
        /\ fresult[1] = "frame"
        /\ Len(fresult[2].rows) = Len(api_rows)
        /\ fresult[2].columns = [k \in 1..Len(api_columns) |-> api_columns[k].title]
        /\ \A k \in 1..Len(api_rows) :
            /\ DOMAIN fresult[2].rows[k] = {api_columns[j].title : j \in 1..Len(api_columns)}
            /\ \A j \in 1..Len(api_columns) :
                ~HasEntry(api_rows[k], api_columns[j].id)
                    => IsNull(fresult[2].rows[k][api_columns[j].title])

C10_Witness ==
    /\ entry = "fetch_table_data"
    /\ ~explode
    /\ fpc = "returned"
    /\ Len(api_rows) = 2
    /\ fresult[1] = "frame"
    /\ fresult[2].columns = <<"c", "a">>
    /\ IsNull(fresult[2].rows[1]["c"])
    /\ fresult[2].rows[1]["a"] = PyInt(1)
    /\ fresult[2].rows[2]["c"] = PyStr("x")
    /\ IsNull(fresult[2].rows[2]["a"])

(***************************************************************************)
(* Properties of _process_row_data and _explode_row (SpecDecode).          *)
(***************************************************************************)
\* C8 as stated: the list form and the mapping form of the same pairs decode
\* to the same base values and the same explodable columns.
C8_FormsDecodeAlike == dpc = "decoded" => from_list = from_dict

\* a pair written into the mapping without a wrapper although its value is
\* itself a mapping with a "value" key
RawLooksWrapped(k) ==
    /\ ~shape[k].wrapped
    /\ pairs[k].value[1] = "dict"
    /\ \E j \in 1..Len(pairs[k].value[2]) : pairs[k].value[2][j][1] = "value"

\* C8 amended: the two forms decode alike provided no value the mapping
\* holds unwrapped is itself a mapping with a "value" key.
C8_FormsDecodeAlikeUnlessAmbiguous ==
    (dpc = "decoded" /\ \A k \in 1..Len(pairs) : ~RawLooksWrapped(k))
        => from_list = from_dict

C8_Witness ==
    /\ dpc = "decoded"
    /\ dexplode
    /\ from_list = from_dict
    /\ from_list.base # <<>>
    /\ from_list.explodable # <<>>
    /\ \E k \in 1..Len(pairs) : shape[k].key = "str" /\ shape[k].wrapped
    /\ \E k \in 1..Len(pairs) : shape[k].key = "int" /\ ~shape[k].wrapped

\* the flattened column names an explodable column gives rise to
FlatNames(name, items) ==
    UNION {{name \o "_" \o items[i][2][j][1] : j \in 1..Len(items[i][2])} : i \in 1..Len(items)}

\* C9: with explode=true a row with explodable columns gives as many output
\* rows as its longest list; output row i has the fields of element i of
\* every explodable column under {column}_{key}, null for the flattened
\* fields of a column whose list is shorter, and every non-explodable value
\* unchanged; a row without explodable columns gives the one row of its
\* decoded values.
C9_Explode ==
    (dpc = "decoded" /\ dexplode) =>
        LET base == from_list.base
            expl == from_list.explodable
        IN IF expl = <<>>
           THEN out_rows = <<base>>
           ELSE /\ Len(out_rows) = Max({Len(expl[c][2][2]) : c \in 1..Len(expl)})
                /\ Len(out_frame.rows) = Len(out_rows)
                /\ \A i \in 1..Len(out_frame.rows) :
                    /\ \A c \in 1..Len(expl) :
                        LET name == expl[c][1]
                            items == expl[c][2][2]
                        IN IF i <= Len(items)
                           THEN \A j \in 1..Len(items[i][2]) :
                                    out_frame.rows[i][name \o "_" \o items[i][2][j][1]]
                                        = items[i][2][j][2]
                           ELSE \A f \in FlatNames(name, items) : IsNull(out_frame.rows[i][f])
                    /\ \A b \in 1..Len(base) : out_frame.rows[i][base[b][1]] = base[b][2]

(***************************************************************************)
(* Properties of create_family_hours_table (SpecFamily).                   *)
(***************************************************************************)
\* the day of a datetime as a number that grows with the calendar
DayNumber(t) == (t[1] * 12 + t[2]) * 31 + t[3]

SecondOfDay(t) == (t[4] * 60 + t[5]) * 60 + t[6]

\* datetime t is later than Sep 1 00:00:00 of the year
AfterSep1(t, year) ==
    \/ DayNumber(t) > DayNumber(<<year, 9, 1>>)
    \/ DayNumber(t) = DayNumber(<<year, 9, 1>>) /\ SecondOfDay(t) > 0

\* datetime t is earlier than Sep 1 00:00:00 of the year
BeforeSep1(t, year) == DayNumber(t) < DayNumber(<<year, 9, 1>>)

AtSep1(t, year) == DayNumber(t) = DayNumber(<<year, 9, 1>>) /\ SecondOfDay(t) = 0

\* the hours row has a date strictly inside the Kita year
StrictlyInside(row) ==
    LET t == astype_datetime(row["Datum"]).val
    IN /\ t[1] = "ts"
       /\ AfterSep1(t[2], kita_year)
       /\ BeforeSep1(t[2], kita_year + 1)

OnBoundary(row) ==
    LET t == astype_datetime(row["Datum"]).val
    IN /\ t[1] = "ts"
       /\ AtSep1(t[2], kita_year) \/ AtSep1(t[2], kita_year + 1)

\* the input rows that lie strictly inside the Kita year
RowsInside == {k \in 1..Len(df_hours0) : StrictlyInside(df_hours0[k])}

RECURSIVE HoursOf(_, _, _)
\* the Stunden of the rows of one account among the first n input rows that
\* are of the given set
HoursOf(account, rows, n) ==
    IF n = 0 THEN 0
    ELSE HoursOf(account, rows, n - 1)
         + (IF /\ n \in rows
               /\ df_hours0[n]["wer?_id"] = PyStr(account)
               /\ ~isna(df_hours0[n]["Stunden"])
            THEN df_hours0[n]["Stunden"][2] ELSE 0)

\* the Stunden of one account that lie strictly inside the Kita year
HoursInside(account) == HoursOf(account, RowsInside, Len(df_hours0))

Filtered == tpc \in {"add_family", "dicts", "family_hours", "returned"} \/ terror = "KeyError"

DictsBuilt == tpc \in {"family_hours", "returned"} \/ terror = "KeyError"

\* C11: an hours row is kept by the Kita-year filter, and so counts toward
\* its person's hours, iff its date is strictly after Sep 1 00:00:00 of
\* kita_year and strictly before Sep 1 00:00:00 of kita_year + 1; rows dated
\* on either boundary are excluded
C11_StrictWindow ==
    Filtered =>
        LET inside == RowsInside
        IN /\ Len(df_hours) = Cardinality(inside)
           /\ \A k \in 1..Len(df_hours0) :
                 k \in inside <=>
                     \E j \in 1..Len(df_hours) :
                         /\ df_hours[j]["wer?_id"] = df_hours0[k]["wer?_id"]
                         /\ df_hours[j]["Stunden"] = df_hours0[k]["Stunden"]
                         /\ df_hours[j]["Datum"] = astype_datetime(df_hours0[k]["Datum"]).val
           /\ DictsBuilt =>
                 \A account \in {"m", "v"} :
                     /\ (IF account \in DOMAIN hours_dict THEN hours_dict[account] ELSE 0)
                            = HoursOf(account, inside, Len(df_hours0))
                     /\ account \in DOMAIN hours_dict <=>
                            \E k \in inside : df_hours0[k]["wer?_id"] = PyStr(account)

\* a call returned whose hours table held a row on a boundary of the Kita
\* year and a row just inside it, and only the latter was counted
C11_Witness ==
    /\ tpc = "returned"
    /\ Len(df_hours0) = 2
    /\ OnBoundary(df_hours0[1])
    /\ StrictlyInside(df_hours0[2])
    /\ hours_dict["m"] = df_hours0[2]["Stunden"][2]
    /\ Len(df_hours) = 1

\* the names rows (children) of one family
RowsOfFamily(familie) == {k \in 1..Len(df_names) : df_names[k]["Familie"] = familie}

\* C12: when create_family_hours_table succeeds, the report has exactly one
\* record per distinct family name, and the child count used for a family
\* is the number of names rows that share its family name
C12_OneRecordPerFamily ==
    tpc = "returned" =>
        /\ Len(treturn) = Len(family_hours)
        /\ {treturn[k]["Familie"] : k \in 1..Len(treturn)}
               = {df_names[k]["Familie"] : k \in 1..Len(df_names)}
        /\ \A j, k \in 1..Len(treturn) : j # k => treturn[j]["Familie"] # treturn[k]["Familie"]
        /\ \A k \in 1..Len(family_hours) :
              /\ treturn[k]["Familie"] = family_hours[k].Familie
              /\ family_hours[k].n_children
                     = Cardinality(RowsOfFamily(family_hours[k].Familie))

\* the integer nearest to num / den, the even one of two equally near
Rounded(num, den) ==
    CHOOSE r \in 0..((num \div den) + 1) :
        /\ 2 * (num - r * den) <= den
        /\ 2 * (r * den - num) <= den
        /\ (2 * (num - r * den) = den \/ 2 * (r * den - num) = den) => r % 2 = 0

\* total_hours / target_hours * 100 of a report record, as a fraction of
\* integers <<numerator, denominator>>
Percent(record) ==
    <<record["Stunden IST"][2] * 100, HoursUnit * record["Stunden SOLL"][2]>>

\* C13: for every family of the report (all hour entries being
\* non-negative) the progress is round(total_hours / target_hours * 100)
\* capped at 100, and lies in 0..100
C13_ProgressCapped ==
    tpc = "returned" =>
        \A k \in 1..Len(treturn) :
            LET rounded == Rounded(Percent(treturn[k])[1], Percent(treturn[k])[2])
            IN /\ treturn[k]["Fortschritt"][2] = IF rounded > 100 THEN 100 ELSE rounded
               /\ treturn[k]["Fortschritt"][2] \in 0..100

\* a report with a family that worked more than its target, a family whose
\* percentage is cut at 100
C13_Witness ==
    /\ tpc = "returned"
    /\ \E k \in 1..Len(treturn) :
          /\ Percent(treturn[k])[1] > 100 * Percent(treturn[k])[2]
          /\ treturn[k]["Fortschritt"][2] = 100

\* the fixed target table: (is_single_parent, child_count, target hours)
FixedTargets ==
    {<<FALSE, 1, 102>>, <<FALSE, 2, 132>>, <<FALSE, 3, 132>>, <<TRUE, 1, 50>>, <<TRUE, 2, 60>>}

\* the names rows that stand for their family: the first row of each
FamilyHeads ==
    {k \in 1..Len(df_names) :
        \A j \in 1..(k - 1) : df_names[j]["Familie"] # df_names[k]["Familie"]}

\* the family of names row k has an entry in the fixed target table
InFixedTargets(k) ==
    /\ df_names[k]["Familie"][1] = "str"
    /\ \E e \in FixedTargets :
          /\ e[1] = df_names[k]["alleinerziehend"]
          /\ e[2] = children_count[df_names[k]["Familie"][2]]

\* C14: if some family's (is_single_parent, child_count) pair is not among
\* the five entries of the target table the call raises and returns no
\* report; otherwise every family's target hours is the entry of its pair
C14_TargetLookup ==
    (tpc = "returned" \/ terror = "KeyError") =>
        IF \E k \in FamilyHeads : ~InFixedTargets(k)
        THEN tpc = "raised" /\ terror = "KeyError" /\ treturn = <<>> /\ family_hours = <<>>
        ELSE /\ tpc = "returned"
             /\ Len(treturn) = Cardinality(FamilyHeads)
             /\ \A k \in 1..Len(family_hours) :
                   /\ <<family_hours[k].alleinerziehend, family_hours[k].n_children,
                        treturn[k]["Stunden SOLL"][2]>> \in FixedTargets
                   /\ \E h \in FamilyHeads :
                         /\ df_names[h]["Familie"] = family_hours[k].Familie
                         /\ df_names[h]["alleinerziehend"] = family_hours[k].alleinerziehend
                         /\ children_count[df_names[h]["Familie"][2]] = family_hours[k].n_children

\* a call that raised on a names table of two families, one with an entry
\* in the target table and one without
C14_Witness ==
    /\ tpc = "raised"
    /\ terror = "KeyError"
    /\ treturn = <<>>
    /\ \E j, k \in FamilyHeads : InFixedTargets(j) /\ ~InFixedTargets(k)

(***************************************************************************)
(* Properties of _process_value (SpecResolve).                             *)
(***************************************************************************)
\* C15: for a select-type column, resolving a raw value and resolving the
\* result again gives what resolving once gave
C15_ResolveTwice == rpc = "twice" => twice = once

\* the options of the column that _build_column_mappings keeps
KeptOptions ==
    {select_column.selectionOptions[k] : k \in
        {j \in 1..Len(select_column.selectionOptions) :
            select_column.selectionOptions[j].label # ""}}

\* the label reads as the id of an option that has another label
ReadsAsOtherOption(label) ==
    \E o \in KeptOptions : int(PyStr(label)).exc = "none" /\ int(PyStr(label)).n = o.id
                           /\ o.label # label

\* the label is a string-encoded list or mapping
ReadsAsLiteral(label) == looks_complex(PyStr(label))

\* C15 (amended): resolving twice gives what resolving once gave, provided
\* no option label of the column reads as the id of an option with another
\* label or as a list/mapping literal
C15_ResolveTwiceTerminalLabels ==
    (/\ rpc = "twice"
     /\ \A o \in KeptOptions : ~ReadsAsOtherOption(o.label) /\ ~ReadsAsLiteral(o.label))
        => twice = once

\* an option id was resolved to its label, and the label, which reads as
\* its own option's id, was resolved again
C15_Witness ==
    /\ rpc = "twice"
    /\ \A o \in KeptOptions : ~ReadsAsOtherOption(o.label) /\ ~ReadsAsLiteral(o.label)
    /\ raw_value = PyInt(1)
    /\ once = PyStr("1")
    /\ twice = PyStr("1")
    /\ Cardinality(KeptOptions) = 2

(***************************************************************************)
(* More properties of create_family_hours_table (SpecFamily).              *)
(***************************************************************************)
\* the account cell names no one, or someone without hours rows inside the
\* Kita year
NoHours(account) ==
    \/ isna(account)
    \/ ~\E k \in 1..Len(df_hours0) :
            df_hours0[k]["wer?_id"] = account /\ StrictlyInside(df_hours0[k])

\* the guardians' accounts of a family of the report: those of the first
\* names row of the family
AccountsOf(familie) ==
    LET head == CHOOSE k \in FamilyHeads : df_names[k]["Familie"] = familie
    IN <<df_names[head]["Nextcloudaccount Mutter"], df_names[head]["Nextcloudaccount Vater"]>>

\* C16: a guardian whose account is absent or has no hours rows inside the
\* Kita year gets 0 hours in the report, never a missing value, and the
\* family's total is then exactly the other guardian's summed hours
C16_MissingHoursAreZero ==
    tpc = "returned" =>
        \A k \in 1..Len(treturn) :
            LET accounts == AccountsOf(treturn[k]["Familie"])
                mutter == treturn[k]["Stunden Mutter"]
                vater == treturn[k]["Stunden Vater"]
                summe == treturn[k]["Stunden IST"]
            IN /\ ~isna(mutter) /\ ~isna(vater) /\ ~isna(summe)
               /\ NoHours(accounts[1]) => mutter = PyFloat(0) /\ summe = vater
               /\ NoHours(accounts[2]) => vater = PyFloat(0) /\ summe = mutter
               /\ ~NoHours(accounts[1]) => mutter = PyFloat(HoursInside(accounts[1][2]))
               /\ ~NoHours(accounts[2]) => vater = PyFloat(HoursInside(accounts[2][2]))

\* a report with a family whose father has an account but no hours inside
\* the Kita year, and whose mother has some
C16_Witness ==
    /\ tpc = "returned"
    /\ \E k \in 1..Len(treturn) :
          /\ AccountsOf(treturn[k]["Familie"])[2] = PyStr("v")
          /\ NoHours(PyStr("v"))
          /\ treturn[k]["Stunden Vater"] = PyFloat(0)
          /\ treturn[k]["Stunden Mutter"][2] > 0
          /\ treturn[k]["Stunden IST"] = treturn[k]["Stunden Mutter"]
    /\ \E j \in 1..Len(df_hours0) : df_hours0[j]["wer?_id"] = PyStr("v")

(***************************************************************************)
(* Properties of clear_table (SpecClear).                                  *)
(***************************************************************************)
InClearTable == upc \in {"clear_get", "clear_delete"}

\* clear_table has returned to upload_to_table
ClearReturned == replace /\ "rows" \in reads /\ upc \in {"insert", "returned"}

\* C17: when no request fails clear_table terminates on every finite table,
\* whatever the rows returned contain; on return the table holds none of
\* its rows and the count returned is the number of rows deleted
C17_ClearTerminates ==
    /\ [](ClearReturned =>
            /\ deleted = Len(deletes)
            /\ \A k \in 1..Len(table) :
                  table[k].id \notin {table0[j].id : j \in 1..Len(table0)})
    /\ (InClearTable ~> ~InClearTable)

====
